---- MODULE Spec2Model ----
(***************************************************************************)
(* Model of the JWT / permission-context request pipeline of the          *)
(* nextjs-trpc-boilerplate backend: token decoding (auth/jwt.ts), the     *)
(* tRPC procedures (auth/procedures.ts), context creation (context.ts),   *)
(* lazy service initialisation (init.ts), the UserService and UserDAO,    *)
(* the secured example router, and the start and shutdown of the          *)
(* standalone backend and of a cluster worker (cluster.ts).               *)
(***************************************************************************)
EXTENDS Integers, Sequences, FiniteSets, TLC

(***************************************************************************)
(* Bounds                                                                  *)
(***************************************************************************)
MaxTime == 2
MaxHeaderLen == 3
MaxRequests == 2
MaxCreates == 3
MaxClients == 3

(***************************************************************************)
(* Strings.  A string is a sequence of atoms; the atom " " is the space   *)
(* character, every other atom is a run of non-space characters.          *)
(***************************************************************************)
SP == " "

RECURSIVE split(_)
\* String.prototype.split(' '): the pieces between consecutive spaces
split(s) ==
    IF \A i \in 1..Len(s) : s[i] # SP
    THEN <<s>>
    ELSE LET k == CHOOSE i \in 1..Len(s) :
                      s[i] = SP /\ \A j \in 1..(i - 1) : s[j] # SP
         IN  <<SubSeq(s, 1, k - 1)>> \o split(SubSeq(s, k + 1, Len(s)))

RECURSIVE join(_)
\* Array.prototype.join(', ') of a list of permission names
join(list) ==
    IF Len(list) = 0 THEN <<>>
    ELSE IF Len(list) = 1 THEN <<list[1]>>
    ELSE <<list[1], ",", SP>> \o join(Tail(list))

\* Array.prototype.includes
includes(list, x) == \E i \in 1..Len(list) : list[i] = x

Range(list) == {list[i] : i \in 1..Len(list)}

(***************************************************************************)
(* Tokens.  A token string is one atom; TokenTable gives what was signed  *)
(* into it.  signed: signature made with the server secret; wellFormed:   *)
(* the payload decodes; exp: expiry time (NoExp: none); hasUserId /       *)
(* hasPermissions: whether the payload carries the field.                 *)
(***************************************************************************)
NoExp == MaxTime + 10

TokenTable ==
    [ T1 |-> [signed |-> TRUE, wellFormed |-> TRUE, exp |-> NoExp,
              hasUserId |-> TRUE, userId |-> "u1",
              hasPermissions |-> TRUE, permissions |-> <<"user/read">>],
      T2 |-> [signed |-> TRUE, wellFormed |-> TRUE, exp |-> NoExp,
              hasUserId |-> TRUE, userId |-> "u2",
              hasPermissions |-> TRUE,
              permissions |-> <<"user/read", "user/create", "user/write", "user/delete">>],
      T3 |-> [signed |-> TRUE, wellFormed |-> TRUE, exp |-> NoExp,
              hasUserId |-> TRUE, userId |-> "1",
              hasPermissions |-> TRUE, permissions |-> <<"user/create", "admin">>],
      T4 |-> [signed |-> TRUE, wellFormed |-> TRUE, exp |-> NoExp,
              hasUserId |-> TRUE, userId |-> "u4",
              hasPermissions |-> TRUE, permissions |-> <<"admin", "user/delete">>],
      Tnoperm |-> [signed |-> TRUE, wellFormed |-> TRUE, exp |-> NoExp,
              hasUserId |-> TRUE, userId |-> "u5",
              hasPermissions |-> FALSE, permissions |-> <<>>],
      Texp |-> [signed |-> TRUE, wellFormed |-> TRUE, exp |-> 1,
              hasUserId |-> TRUE, userId |-> "u6",
              hasPermissions |-> TRUE, permissions |-> <<"user/read", "user/delete">>],
      Tnoid |-> [signed |-> TRUE, wellFormed |-> TRUE, exp |-> NoExp,
              hasUserId |-> FALSE, userId |-> "",
              hasPermissions |-> TRUE, permissions |-> <<"user/read">>],
      Tempty |-> [signed |-> TRUE, wellFormed |-> TRUE, exp |-> NoExp,
              hasUserId |-> TRUE, userId |-> "",
              hasPermissions |-> TRUE, permissions |-> <<"admin">>],
      Tforged |-> [signed |-> FALSE, wellFormed |-> TRUE, exp |-> NoExp,
              hasUserId |-> TRUE, userId |-> "u1",
              hasPermissions |-> TRUE, permissions |-> <<"admin">>],
      Tgarbled |-> [signed |-> TRUE, wellFormed |-> FALSE, exp |-> NoExp,
              hasUserId |-> TRUE, userId |-> "u1",
              hasPermissions |-> TRUE, permissions |-> <<"admin">>] ]

TokenIds == DOMAIN TokenTable

\* jwt.verify(token, secret): TRUE when it returns the payload, FALSE when
\* it throws (not a token, bad signature, malformed payload, expired)
jwtVerifies(token, time) ==
    /\ Len(token) = 1
    /\ token[1] \in TokenIds
    /\ TokenTable[token[1]].signed
    /\ TokenTable[token[1]].wellFormed
    /\ time < TokenTable[token[1]].exp

(***************************************************************************)
(* Header values.  An Authorization header is absent or a string.         *)
(***************************************************************************)
NoHeader == [defined |-> FALSE, str |-> <<>>]
Hdr(s) == [defined |-> TRUE, str |-> s]

Null == [kind |-> "null"]
Payload(t) == [kind |-> "payload", token |-> t]
Threw == [kind |-> "throw"]

\* parseAuthHeader without the scheme check and without the try/catch
parseAuthHeader_unguarded(authHeader, time) ==
    IF ~authHeader.defined \/ authHeader.str = <<>> THEN Null
    ELSE LET parts == split(authHeader.str)
         IN  IF Len(parts) # 2 THEN Null
             ELSE IF jwtVerifies(parts[2], time) THEN Payload(parts[2][1])
             ELSE Threw

\* parseAuthHeader(authHeader) evaluated at clock value time
parseAuthHeader(authHeader, time) ==
    IF ~authHeader.defined \/ authHeader.str = <<>> THEN Null
    ELSE LET parts == split(authHeader.str)
         IN  IF Len(parts) # 2 \/ parts[1] # <<"Bearer">> THEN Null
             ELSE IF jwtVerifies(parts[2], time) THEN Payload(parts[2][1])
             ELSE Null

\* payload?.userId ?? null: an empty userId is kept
userIdOf_nullish(payload) ==
    IF payload.kind = "payload" /\ TokenTable[payload.token].hasUserId
    THEN [isNull |-> FALSE, value |-> TokenTable[payload.token].userId]
    ELSE [isNull |-> TRUE, value |-> ""]

\* payload?.userId || null : the id, or null when the payload is null or
\* carries no (or an empty) userId
userIdOf(payload) ==
    IF payload.kind = "payload" /\ TokenTable[payload.token].hasUserId
       /\ TokenTable[payload.token].userId # ""
    THEN [isNull |-> FALSE, value |-> TokenTable[payload.token].userId]
    ELSE [isNull |-> TRUE, value |-> ""]

\* payload?.permissions || ['user/read']: a default that grants reading
permissionsOf_default(payload) ==
    IF payload.kind = "payload" /\ TokenTable[payload.token].hasPermissions
    THEN TokenTable[payload.token].permissions
    ELSE <<"user/read">>

\* payload?.permissions || []
permissionsOf(payload) ==
    IF payload.kind = "payload" /\ TokenTable[payload.token].hasPermissions
    THEN TokenTable[payload.token].permissions
    ELSE <<>>

(***************************************************************************)
(* ctx.headers.  createContext hands the procedures the request's headers *)
(* object: a plain object (Express / Next IncomingHttpHeaders), a Fetch   *)
(* Headers instance, or undefined (no request, the tests' mock context).  *)
(***************************************************************************)
Adapters == {"express", "fetch", "mock"}

\* the headers field of the context createContext returns
createContextHeaders(adapter, auth) ==
    IF adapter = "express" THEN [kind |-> "object", authorization |-> auth]
    ELSE IF adapter = "fetch" THEN [kind |-> "Headers", authorization |-> auth]
    ELSE [kind |-> "undefined", authorization |-> NoHeader]

\* ctx.headers ? Object.fromEntries(ctx.headers) : undefined
\* Object.fromEntries iterates its argument: a Headers instance yields its
\* entries, a plain object is not iterable and raises a TypeError.
headersArg(ctxHeaders) ==
    IF ctxHeaders.kind = "undefined"
    THEN [threw |-> FALSE, defined |-> FALSE, authorization |-> NoHeader]
    ELSE IF ctxHeaders.kind = "Headers"
    THEN [threw |-> FALSE, defined |-> TRUE, authorization |-> ctxHeaders.authorization]
    ELSE [threw |-> TRUE, defined |-> FALSE, authorization |-> NoHeader]

\* extractUserId(headers) evaluated at clock value time
extractUserId(headers, time) ==
    IF ~headers.defined THEN [isNull |-> TRUE, value |-> ""]
    ELSE IF ~headers.authorization.defined THEN [isNull |-> TRUE, value |-> ""]
    ELSE userIdOf(parseAuthHeader(headers.authorization, time))

\* extractPermissions(headers) evaluated at clock value time
extractPermissions(headers, time) ==
    IF ~headers.defined THEN <<>>
    ELSE IF ~headers.authorization.defined THEN <<>>
    ELSE permissionsOf(parseAuthHeader(headers.authorization, time))

(***************************************************************************)
(* Routes.  proc: the procedure the route is built on; api: whether the   *)
(* handler calls the UserService or a UserDAO method.                     *)
(***************************************************************************)
Route(proc, name, api) == [proc |-> proc, name |-> name, api |-> api]

\* securedExampleRouter built on protectedProcedure
SecuredRoutes ==
    {Route("protected", n, "service") :
        n \in {"getProfile", "updateSettings", "createUser", "listUsers", "deleteUser"}}

\* securedExampleRouter built on permissionProcedure
PermissionRoutes ==
    {Route("permission", n, "service") :
        n \in {"updateSettings", "createUser", "listUsers", "deleteUser"}}

\* protectedProcedure routes whose handler calls a UserDAO method
DaoRoutes ==
    {Route("protected", n, "dao") : n \in {"create", "findAll", "update", "delete"}}

\* publicProcedure routes whose handler calls a UserDAO method
PublicDaoRoutes ==
    {Route("public", n, "dao") : n \in {"create", "findAll"}}

\* a protectedProcedure route whose handler calls a service method that
\* checks ['user/delete'] itself and then calls UserDAO.delete
GuardedRoutes == {Route("protected", "delete", "guarded")}

\* a protectedProcedure route whose handler calls withPermissions
NestedRoutes == {Route("protected", "nested", "nested")}

\* the principals a handler hands to withPermissions
InnerPrincipals ==
    {[userId |-> "system", permissions |-> <<"user/read", "user/delete">>],
     [userId |-> "guest", permissions |-> <<>>]}

\* the list handed to permissionProcedure(...) by each route
requiredPermissions(route) ==
    IF route.name = "updateSettings" THEN <<"settings/write", "user/admin">>
    ELSE IF route.name = "createUser" THEN <<"user/create", "admin">>
    ELSE IF route.name = "listUsers" THEN <<"user/read">>
    ELSE IF route.name = "deleteUser" THEN <<"user/delete", "admin">>
    ELSE <<>>

\* the list each UserDAO method hands to checkRequiredPermissions
daoRequired(method) ==
    IF method = "create" THEN <<"user/create">>
    ELSE IF method = "findAll" THEN <<"user/read">>
    ELSE IF method = "update" THEN <<"user/write">>
    ELSE <<"user/delete">>

\* requiredPermissions.some(...): one listed permission is enough
hasPermission_some(required, permissions) ==
    \E i \in 1..Len(required) : includes(permissions, required[i])

\* requiredPermissions.every((perm) => permissions.includes(perm))
hasPermission(required, permissions) ==
    \A i \in 1..Len(required) : includes(permissions, required[i])

\* `Missing required permissions: ${requiredPermissions.join(', ')}`
forbiddenMessage(required) ==
    <<"Missing", SP, "required", SP, "permissions:", SP>> \o join(required)

(***************************************************************************)
(* Request inputs                                                          *)
(***************************************************************************)
Calls == {"A", "B"}
Names == {"n1"}
Emails == {"e1", "e2"}
\* String(n) for the ids the counter reaches
idString == <<"1", "2", "3", "4", "5", "6", "7", "8", "9">>
TargetIds == {"1", "2"}

NoInput == [userId |-> "", name |-> "", email |-> ""]
NoContext == [present |-> FALSE, userId |-> "", permissions |-> <<>>]

IdleCall ==
    [pc |-> "idle", route |-> Route("public", "none", "service"),
     adapter |-> "mock", auth |-> NoHeader,
     authAt |-> 0, permAt |-> 0, userId |-> "", permissions |-> <<>>, authed |-> FALSE,
     input |-> NoInput, invocations |-> 0,
     handlerResult |-> "none", outcome |-> "none", message |-> <<>>,
     check |-> "none", observed |-> NoContext,
     precheck |-> "none", preobserved |-> NoContext,
     nested |-> NoContext, after |-> NoContext,
     dbOps |-> 0, returned |-> <<>>, changed |-> FALSE, target |-> "",
     initLog |-> <<>>]

VARIABLES
    now,          \* the clock jwt.verify compares a token's exp with
    initialized,  \* init.ts: let initialized
    initCount,    \* how many times initializeServices has been entered
    call,         \* per call slot: the request, its position and its locals
    als,          \* per call chain: the stack of contexts of the async local storage
    users,        \* UserService.users, in insertion order
    idCounter,    \* UserService.idCounter
    db,           \* the user table behind Prisma
    dbSeq,        \* ids the database has handed out
    started,      \* requests received so far
    pin,          \* input of the decoder under test
    pout,         \* its result
    proc,         \* the server process: its phase and the service shutdowns run
    svc,          \* the last call made on the UserService instance directly
    databaseService  \* the DatabaseService instance and the clients it made

vars == <<now, initialized, initCount, call, als, users, idCounter, db, dbSeq,
          started, pin, pout, proc, svc, databaseService>>

(***************************************************************************)
(* UserService (in-memory store)                                           *)
(***************************************************************************)
\* getAllUsers returning the first stored user only
getAllUsers_first(us) == IF Len(us) = 0 THEN us ELSE <<us[1]>>

\* getAllUsers(): Array.from(this.users.values())
getAllUsers(us) == us

\* Number(id) of an id made by String(n)
Number(id) == CHOOSE n \in 1..Len(idString) : idString[n] = id

NoUser == [id |-> "", name |-> "", email |-> "", createdAt |-> 0]

\* getUserById(id): this.users.get(id) || null
getUserById(us, id) ==
    IF \E i \in 1..Len(us) : us[i].id = id
    THEN [isNull |-> FALSE, user |-> us[CHOOSE i \in 1..Len(us) : us[i].id = id]]
    ELSE [isNull |-> TRUE, user |-> NoUser]

\* createUser taking the id from the size of the store
createUser_reuse(us, counter, name, email, time) ==
    LET user == [id |-> idString[Len(us) + 1], name |-> name, email |-> email,
                 createdAt |-> time]
    IN  [users |-> Append(us, user), idCounter |-> counter + 1, user |-> user]

\* createUser(name, email)
createUser(us, counter, name, email, time) ==
    LET user == [id |-> idString[counter], name |-> name, email |-> email,
                 createdAt |-> time]
    IN  [users |-> Append(us, user), idCounter |-> counter + 1, user |-> user]

\* deleteUser emptying the store when the id is found
deleteUser_clear(us, id) ==
    [users |-> IF \E i \in 1..Len(us) : us[i].id = id THEN <<>> ELSE us,
     deleted |-> \E i \in 1..Len(us) : us[i].id = id]

\* deleteUser(id): this.users.delete(id)
deleteUser(us, id) ==
    [users |-> SelectSeq(us, LAMBDA u : u.id # id),
     deleted |-> \E i \in 1..Len(us) : us[i].id = id]

\* findByEmail comparing the user's name with the email
findByEmail_byName(us, email) ==
    IF \E i \in 1..Len(us) : us[i].name = email
    THEN [isNull |-> FALSE,
          user |-> us[CHOOSE i \in 1..Len(us) :
                         us[i].name = email /\ \A j \in 1..(i - 1) : us[j].name # email]]
    ELSE [isNull |-> TRUE, user |-> NoUser]

\* findByEmail(email): the first user, in insertion order, with that email
findByEmail(us, email) ==
    IF \E i \in 1..Len(us) : us[i].email = email
    THEN [isNull |-> FALSE,
          user |-> us[CHOOSE i \in 1..Len(us) :
                         us[i].email = email /\ \A j \in 1..(i - 1) : us[j].email # email]]
    ELSE [isNull |-> TRUE, user |-> NoUser]

\* updateUser as { ...user, ...updates }: supplied id and createdAt win
updateUser_override(us, id, updates) ==
    IF getUserById(us, id).isNull
    THEN [users |-> us, updated |-> getUserById(us, id)]
    ELSE LET user == getUserById(us, id).user
             updated ==
                 [id |-> IF "id" \in updates.has THEN updates.id ELSE user.id,
                  name |-> IF "name" \in updates.has THEN updates.name ELSE user.name,
                  email |-> IF "email" \in updates.has THEN updates.email
                            ELSE user.email,
                  createdAt |-> IF "createdAt" \in updates.has THEN updates.createdAt
                                ELSE user.createdAt]
         IN  [users |-> [i \in 1..Len(us) |-> IF us[i].id = id THEN updated ELSE us[i]],
              updated |-> [isNull |-> FALSE, user |-> updated]]

\* updateUser(id, updates): { ...user, ...updates, id, createdAt: user.createdAt }
updateUser(us, id, updates) ==
    IF getUserById(us, id).isNull
    THEN [users |-> us, updated |-> getUserById(us, id)]
    ELSE LET user == getUserById(us, id).user
             updated ==
                 [id |-> id,
                  name |-> IF "name" \in updates.has THEN updates.name ELSE user.name,
                  email |-> IF "email" \in updates.has THEN updates.email
                            ELSE user.email,
                  createdAt |-> user.createdAt]
         IN  [users |-> [i \in 1..Len(us) |-> IF us[i].id = id THEN updated ELSE us[i]],
              updated |-> [isNull |-> FALSE, user |-> updated]]

\* shutdown(): this.users.clear()
shutdown(us) == <<>>

(***************************************************************************)
(* Ambient permission context (PermissionsGuard over async local storage) *)
(***************************************************************************)
\* a context kept in one slot shared by every call chain
runWithPermissions_shared(store, c, permissions, userId) ==
    [d \in DOMAIN store |->
        Append(store[d], [userId |-> userId, permissions |-> permissions])]

\* PermissionsGuard.runWithPermissions(permissions, userId, callback): the
\* context is attached to the call chain that runs callback
runWithPermissions(store, c, permissions, userId) ==
    [store EXCEPT ![c] = Append(@, [userId |-> userId, permissions |-> permissions])]

\* withPermissions(userId, permissions, callback): the helper hands its
\* arguments to runWithPermissions in the order (permissions, userId)
withPermissions(store, c, userId, permissions) ==
    runWithPermissions(store, c, permissions, userId)

\* the context stays attached to the call chain after the callback
leaveContext_kept(store, c) == store

\* leaving a scope drops every context of the call chain
leaveContext_cleared(store, c) == [store EXCEPT ![c] = <<>>]

\* leaving a scope drops the innermost context of every call chain
leaveContext_all(store, c) ==
    [d \in DOMAIN store |->
        IF Len(store[d]) = 0 THEN store[d] ELSE SubSeq(store[d], 1, Len(store[d]) - 1)]

\* the callback of runWithPermissions has settled
leaveContext(store, c) ==
    [store EXCEPT ![c] = IF Len(@) = 0 THEN @ ELSE SubSeq(@, 1, Len(@) - 1)]

\* the context a lookup made by call chain c observes
currentContext(store, c) ==
    IF Len(store[c]) = 0 THEN NoContext
    ELSE [present |-> TRUE, userId |-> store[c][Len(store[c])].userId,
          permissions |-> store[c][Len(store[c])].permissions]

\* PermissionsGuard.checkRequiredPermissions(required) against a context
checkRequiredPermissions(context, required) ==
    IF ~context.present THEN "unauthenticated"
    ELSE IF \A i \in 1..Len(required) : includes(context.permissions, required[i])
    THEN "pass"
    ELSE "denied"

\* the failure a failed check raises
checkFailure(result) ==
    IF result = "denied" THEN "ACCESS_DENIED" ELSE "UNAUTHENTICATED"

(***************************************************************************)
(* Initial state                                                           *)
(***************************************************************************)
NoPin == [auth |-> NoHeader, time |-> 0]

\* the services initializeServices registers, in registration order
Services == <<"DatabaseService", "UserDAO", "UserService">>

\* the process after its modules are loaded: nothing started, no service
\* shutdown run
NewProc == [phase |-> "module", mode |-> "lazy", shutdowns |-> {}]

\* a DatabaseService after construction.  prisma is the private field, 0
\* for null and otherwise the number of the client; created counts the
\* clients constructed, connected and disconnected hold the clients
\* $connect and $disconnect were called on, closing is the client whose
\* $disconnect a running shutdown awaits, returned holds what getPrisma
\* returned since the last shutdown completed, op and result describe the
\* last call
NewDatabaseService ==
    [prisma |-> 0, created |-> 0, connected |-> {}, disconnected |-> {},
     closing |-> 0, returned |-> {}, op |-> "none", result |-> 0]

\* an updates argument that supplies no field
NoUpdates ==
    [has |-> {}, name |-> "n2", email |-> "e2", id |-> "nonexistent",
     createdAt |-> MaxTime]

\* no call made on the UserService instance yet: op, id, result, updates
\* and returned describe the last call; ids lists the numeric ids created,
\* removed the ids deleted, cleared tells whether shutdown was ever called
NoSvc ==
    [op |-> "none", id |-> "", result |-> "none", ids |-> <<>>,
     updates |-> NoUpdates, returned |-> [isNull |-> TRUE, user |-> NoUser],
     removed |-> {}, cleared |-> FALSE]

Init ==
    /\ now = 0
    /\ initialized = FALSE
    /\ initCount = 0
    /\ call = [c \in Calls |-> IdleCall]
    /\ als = [c \in Calls |-> <<>>]
    /\ users = <<>>
    /\ idCounter = 1
    /\ db = <<>>
    /\ dbSeq = 1
    /\ started = 0
    /\ pin = NoPin
    /\ pout = [done |-> FALSE, result |-> Null]
    /\ proc = NewProc
    /\ svc = NoSvc
    /\ databaseService = NewDatabaseService

(***************************************************************************)
(* Request pipeline                                                        *)
(***************************************************************************)
\* a request for one of routes arrives through one of adapters
receive(c, routes, adapters, auths) ==
    /\ call[c].pc = "idle"
    /\ started < MaxRequests
    /\ \E r \in routes, a \in adapters, h \in auths :
          /\ a = "mock" => h = NoHeader
          /\ call' = [call EXCEPT ![c] =
                        [IdleCall EXCEPT !.pc = "createContext", !.route = r,
                                         !.adapter = a, !.auth = h]]
    /\ started' = started + 1
    /\ UNCHANGED <<now, initialized, initCount, als, users, idCounter, db, dbSeq,
                   pin, pout, proc, svc, databaseService>>

\* createContext that does not await ensureServicesInitialized()
createContext_unawaited(c) ==
    /\ call[c].pc = "createContext"
    /\ call' = [call EXCEPT ![c].pc = "middleware"]
    /\ UNCHANGED <<now, initialized, initCount, als, users, idCounter, db, dbSeq,
                   started, pin, pout, proc, svc, databaseService>>

\* createContext up to `await ensureServicesInitialized()`: the test of the
\* flag and, when it is not set, the call of initializeServices
createContext(c) ==
    /\ call[c].pc = "createContext"
    /\ IF initialized
       THEN /\ call' = [call EXCEPT ![c].pc = "middleware"]
            /\ UNCHANGED initCount
       ELSE /\ call' = [call EXCEPT ![c].pc = "initializing"]
            /\ initCount' = initCount + 1
    /\ UNCHANGED <<now, initialized, als, users, idCounter, db, dbSeq, started,
                   pin, pout, proc, svc, databaseService>>

\* the run of initializeServices made for c: ServicesContext.initialize
\* initialises the next registered service, one after the other; initLog
\* lists the services the run in progress has initialised
initializeServices(c) ==
    /\ call[c].pc = "initializing"
    /\ Len(call[c].initLog) < Len(Services)
    /\ call' = [call EXCEPT ![c].initLog = Append(@, Services[Len(@) + 1])]
    /\ UNCHANGED <<now, initialized, initCount, als, users, idCounter, db, dbSeq,
                   started, pin, pout, proc, svc, databaseService>>

\* initializeServices has settled: ensureServicesInitialized sets the flag
\* and createContext goes on to build the context
ensureServicesInitialized(c) ==
    /\ call[c].pc = "initializing"
    /\ Len(call[c].initLog) = Len(Services)
    /\ initialized' = TRUE
    /\ call' = [call EXCEPT ![c].pc = "middleware", ![c].initLog = <<>>]
    /\ UNCHANGED <<now, initCount, als, users, idCounter, db, dbSeq, started,
                   pin, pout, proc, svc, databaseService>>

\* a failure of the handler is replaced by a generic one
propagate_masked(result) ==
    IF result = "ok" THEN "ok" ELSE "INTERNAL_SERVER_ERROR"

\* return PermissionsGuard.runWithPermissions(..., () => next(...)): what
\* next(...) settled with is what the middleware settles with
propagate(result) == result

\* the call ends with outcome o before any handler ran
reject(c, o, msg) ==
    call' = [call EXCEPT ![c].pc = "done", ![c].outcome = o, ![c].message = msg]

\* a public procedure that establishes a context without permissions for
\* an anonymous principal
publicProcedure_anonymous(c) ==
    /\ call[c].pc = "middleware"
    /\ call[c].route.proc = "public"
    /\ call' = [call EXCEPT ![c].pc = "handler"]
    /\ als' = [als EXCEPT ![c] = Append(@, [userId |-> "", permissions |-> <<>>])]
    /\ UNCHANGED <<now, initialized, initCount, users, idCounter, db, dbSeq,
                   started, pin, pout, proc, svc, databaseService>>

\* publicProcedure = t.procedure: no middleware
publicProcedure(c) ==
    /\ call[c].pc = "middleware"
    /\ call[c].route.proc = "public"
    /\ call' = [call EXCEPT ![c].pc = "handler"]
    /\ UNCHANGED <<now, initialized, initCount, als, users, idCounter, db, dbSeq,
                   started, pin, pout, proc, svc, databaseService>>

\* the clock values the second verification of one middleware run can see
laterTimes(t) == {u \in {t, t + 1} : u <= MaxTime}

\* protectedProcedure middleware
protectedProcedure(c) ==
    /\ call[c].pc = "middleware"
    /\ call[c].route.proc = "protected"
    /\ LET headers == headersArg(createContextHeaders(call[c].adapter, call[c].auth))
       IN  IF headers.threw
           THEN /\ reject(c, "INTERNAL_SERVER_ERROR", <<"TypeError">>)
                /\ UNCHANGED <<now, als>>
           ELSE \E t2 \in laterTimes(now) :
                  LET userId == extractUserId(headers, now)
                      permissions == extractPermissions(headers, t2)
                  IN  /\ now' = t2
                      /\ IF userId.isNull
                         THEN /\ reject(c, "UNAUTHORIZED", <<>>)
                              /\ UNCHANGED als
                         ELSE /\ als' = runWithPermissions(als, c, permissions,
                                                           userId.value)
                              /\ call' = [call EXCEPT ![c].pc = "handler",
                                            ![c].authed = TRUE,
                                            ![c].authAt = now,
                                            ![c].permAt = t2,
                                            ![c].userId = userId.value,
                                            ![c].permissions = permissions]
    /\ UNCHANGED <<initialized, initCount, users, idCounter, db, dbSeq, started,
                   pin, pout, proc, svc, databaseService>>

\* permissionProcedure(requiredPermissions) middleware
permissionProcedure(c) ==
    /\ call[c].pc = "middleware"
    /\ call[c].route.proc = "permission"
    /\ LET headers == headersArg(createContextHeaders(call[c].adapter, call[c].auth))
           required == requiredPermissions(call[c].route)
       IN  IF headers.threw
           THEN /\ reject(c, "INTERNAL_SERVER_ERROR", <<"TypeError">>)
                /\ UNCHANGED <<now, als>>
           ELSE \E t2 \in laterTimes(now) :
                  LET userId == extractUserId(headers, now)
                      permissions == extractPermissions(headers, t2)
                  IN  /\ now' = t2
                      /\ IF userId.isNull
                         THEN /\ reject(c, "UNAUTHORIZED", <<>>)
                              /\ UNCHANGED als
                         ELSE IF ~hasPermission(required, permissions)
                         THEN /\ call' = [call EXCEPT ![c].pc = "done",
                                            ![c].outcome = "FORBIDDEN",
                                            ![c].message = forbiddenMessage(required),
                                            ![c].authAt = now,
                                            ![c].permAt = t2,
                                            ![c].userId = userId.value,
                                            ![c].permissions = permissions]
                              /\ UNCHANGED als
                         ELSE /\ als' = runWithPermissions(als, c, permissions,
                                                           userId.value)
                              /\ call' = [call EXCEPT ![c].pc = "handler",
                                            ![c].authed = TRUE,
                                            ![c].authAt = now,
                                            ![c].permAt = t2,
                                            ![c].userId = userId.value,
                                            ![c].permissions = permissions]
    /\ UNCHANGED <<initialized, initCount, users, idCounter, db, dbSeq, started,
                   pin, pout, proc, svc, databaseService>>

(***************************************************************************)
(* Handlers of the secured example router (UserService)                   *)
(***************************************************************************)
\* the inputs a handler can be called with
handlerInputs(route, ctxUserId) ==
    IF route.name = "createUser"
    THEN {[userId |-> "", name |-> n, email |-> e] : n \in Names, e \in Emails}
    ELSE IF route.name = "deleteUser"
    THEN {[userId |-> t, name |-> "", email |-> ""] : t \in TargetIds \cup {ctxUserId}}
    ELSE {NoInput}

\* the handlers with deleteUser lacking the comparison of input.userId with
\* ctx.userId
handlerEffect_noSelfCheck(name, ctxUserId, input, us, counter, time) ==
    IF name = "createUser"
    THEN LET r == createUser(us, counter, input.name, input.email, time)
         IN  [users |-> r.users, idCounter |-> r.idCounter, result |-> "ok",
              returned |-> <<r.user>>]
    ELSE IF name = "listUsers"
    THEN [users |-> us, idCounter |-> counter, result |-> "ok",
          returned |-> getAllUsers(us)]
    ELSE IF name = "deleteUser"
    THEN LET r == deleteUser(us, input.userId)
         IN  [users |-> r.users, idCounter |-> counter,
              result |-> IF r.deleted THEN "ok" ELSE "NOT_FOUND",
              returned |-> <<>>]
    ELSE [users |-> us, idCounter |-> counter, result |-> "ok", returned |-> <<>>]

\* the handler of a route, run to completion: the store it leaves, what it
\* returns and how it ends
handlerEffect(name, ctxUserId, input, us, counter, time) ==
    IF name = "createUser"
    THEN LET r == createUser(us, counter, input.name, input.email, time)
         IN  [users |-> r.users, idCounter |-> r.idCounter, result |-> "ok",
              returned |-> <<r.user>>]
    ELSE IF name = "listUsers"
    THEN [users |-> us, idCounter |-> counter, result |-> "ok",
          returned |-> getAllUsers(us)]
    ELSE IF name = "deleteUser"
    THEN IF input.userId = ctxUserId
         THEN [users |-> us, idCounter |-> counter, result |-> "BAD_REQUEST",
               returned |-> <<>>]
         ELSE LET r == deleteUser(us, input.userId)
              IN  [users |-> r.users, idCounter |-> counter,
                   result |-> IF r.deleted THEN "ok" ELSE "NOT_FOUND",
                   returned |-> <<>>]
    ELSE [users |-> us, idCounter |-> counter, result |-> "ok", returned |-> <<>>]

\* the store after the call chain of c has settled
settled(store, c) ==
    IF call[c].route.proc = "public" THEN store ELSE leaveContext(store, c)

\* a handler that uses the UserService: synchronous, runs in one step
handler(c) ==
    /\ call[c].pc = "handler"
    /\ call[c].route.api = "service"
    /\ \E input \in handlerInputs(call[c].route, call[c].userId) :
          LET eff == handlerEffect(call[c].route.name, call[c].userId, input,
                                   users, idCounter, now)
          IN  /\ users' = eff.users
              /\ idCounter' = eff.idCounter
              /\ call' = [call EXCEPT ![c].pc = "done",
                            ![c].input = input,
                            ![c].invocations = @ + 1,
                            ![c].handlerResult = eff.result,
                            ![c].outcome = propagate(eff.result),
                            ![c].returned = eff.returned,
                            ![c].changed = (eff.users # users)]
    /\ als' = settled(als, c)
    /\ UNCHANGED <<now, initialized, initCount, db, dbSeq, started, pin, pout, proc, svc, databaseService>>

(***************************************************************************)
(* UserDAO (Prisma)                                                        *)
(***************************************************************************)
\* the method goes on although the check failed (the check is not awaited)
daoProceeds_unawaited(result) == TRUE

\* await PermissionsGuard.checkRequiredPermissions([...]): the method goes
\* on to the database only when the check returned
daoProceeds(result) == result = "pass"

hasRow(table, id) == \E i \in 1..Len(table) : table[i].id = id
hasEmail(table, email) == \E i \in 1..Len(table) : table[i].email = email

\* the invocations of the handler of c once the UserDAO method is entered
entered(c, n) == IF call[c].pc = "handler" THEN n + 1 ELSE n

\* the handler calls a service method that starts with its own check of
\* ['user/delete'] and then calls UserDAO.delete
serviceCheck(c) ==
    /\ call[c].pc = "handler"
    /\ call[c].route.api = "guarded"
    /\ LET context == currentContext(als, c)
           result == checkRequiredPermissions(context, <<"user/delete">>)
       IN  IF daoProceeds(result)
           THEN /\ call' = [call EXCEPT ![c].pc = "service_checked",
                              ![c].invocations = @ + 1,
                              ![c].preobserved = context,
                              ![c].precheck = result]
                /\ UNCHANGED als
           ELSE /\ call' = [call EXCEPT ![c].pc = "done",
                              ![c].invocations = @ + 1,
                              ![c].preobserved = context,
                              ![c].precheck = result,
                              ![c].handlerResult = checkFailure(result),
                              ![c].outcome = propagate(checkFailure(result))]
                /\ als' = settled(als, c)
    /\ UNCHANGED <<now, initialized, initCount, users, idCounter, db, dbSeq,
                   started, pin, pout, proc, svc, databaseService>>

\* the handler calls the UserDAO method, which starts with its check
daoCheck(c) ==
    /\ \/ call[c].pc = "handler" /\ call[c].route.api = "dao"
       \/ call[c].pc = "service_checked"
    /\ LET context == currentContext(als, c)
           result == checkRequiredPermissions(context, daoRequired(call[c].route.name))
       IN  IF daoProceeds(result)
           THEN /\ call' = [call EXCEPT ![c].pc = "dao_query",
                              ![c].invocations = entered(c, @),
                              ![c].observed = context,
                              ![c].check = result]
                /\ UNCHANGED als
           ELSE /\ call' = [call EXCEPT ![c].pc = "done",
                              ![c].invocations = entered(c, @),
                              ![c].observed = context,
                              ![c].check = result,
                              ![c].handlerResult = checkFailure(result),
                              ![c].outcome = propagate(checkFailure(result))]
                /\ als' = settled(als, c)
    /\ UNCHANGED <<now, initialized, initCount, users, idCounter, db, dbSeq,
                   started, pin, pout, proc, svc, databaseService>>

\* the call of c ends with result r, returning rows
daoEnds(c, r, rows, changed) ==
    /\ call' = [call EXCEPT ![c].pc = "done",
                  ![c].dbOps = @ + 1,
                  ![c].handlerResult = r,
                  ![c].outcome = propagate(r),
                  ![c].returned = rows,
                  ![c].changed = changed]
    /\ als' = settled(als, c)

\* the database operation of create, findAll and update, and the lookup of
\* delete
daoQuery(c) ==
    /\ call[c].pc = "dao_query"
    /\ LET m == call[c].route.name
       IN  \/ /\ m = "create"
              /\ \E n \in Names, e \in Emails :
                    IF hasEmail(db, e)
                    THEN /\ daoEnds(c, "INTERNAL_SERVER_ERROR", <<>>, FALSE)
                         /\ UNCHANGED <<db, dbSeq>>
                    ELSE LET row == [id |-> idString[dbSeq], name |-> n, email |-> e]
                         IN  /\ db' = Append(db, row)
                             /\ dbSeq' = dbSeq + 1
                             /\ daoEnds(c, "ok", <<row>>, TRUE)
           \/ /\ m = "findAll"
              /\ daoEnds(c, "ok", db, FALSE)
              /\ UNCHANGED <<db, dbSeq>>
           \/ /\ m = "update"
              /\ \E id \in TargetIds, e \in Emails :
                    IF ~hasRow(db, id)
                       \/ \E i \in 1..Len(db) : db[i].email = e /\ db[i].id # id
                    THEN /\ daoEnds(c, "INTERNAL_SERVER_ERROR", <<>>, FALSE)
                         /\ UNCHANGED <<db, dbSeq>>
                    ELSE /\ db' = [i \in 1..Len(db) |->
                                     IF db[i].id = id
                                     THEN [db[i] EXCEPT !.email = e] ELSE db[i]]
                         /\ daoEnds(c, "ok", <<>>, db' # db)
                         /\ UNCHANGED dbSeq
           \/ /\ m = "delete"
              /\ \E id \in TargetIds :
                    IF hasRow(db, id)
                    THEN /\ call' = [call EXCEPT ![c].pc = "dao_delete",
                                       ![c].dbOps = @ + 1,
                                       ![c].target = id]
                         /\ UNCHANGED als
                    ELSE daoEnds(c, "ok", <<>>, FALSE)
              /\ UNCHANGED <<db, dbSeq>>
    /\ UNCHANGED <<now, initialized, initCount, users, idCounter, started, pin, pout, proc, svc, databaseService>>

\* delete: db.user.delete of the row found
daoDelete(c) ==
    /\ call[c].pc = "dao_delete"
    /\ IF hasRow(db, call[c].target)
       THEN /\ db' = SelectSeq(db, LAMBDA row : row.id # call[c].target)
            /\ daoEnds(c, "ok", <<>>, TRUE)
       ELSE /\ daoEnds(c, "INTERNAL_SERVER_ERROR", <<>>, FALSE)
            /\ UNCHANGED db
    /\ UNCHANGED <<now, initialized, initCount, users, idCounter, dbSeq, started,
                   pin, pout, proc, svc, databaseService>>

(***************************************************************************)
(* A handler that establishes a context of its own with withPermissions   *)
(***************************************************************************)
\* the handler calls withPermissions(userId, permissions, callback): the
\* callback starts inside the new context
callWithPermissions(c) ==
    /\ call[c].pc = "handler"
    /\ call[c].route.api = "nested"
    /\ \E inner \in InnerPrincipals :
          /\ als' = withPermissions(als, c, inner.userId, inner.permissions)
          /\ call' = [call EXCEPT ![c].pc = "nested",
                        ![c].invocations = @ + 1,
                        ![c].nested = [present |-> TRUE, userId |-> inner.userId,
                                       permissions |-> inner.permissions]]
    /\ UNCHANGED <<now, initialized, initCount, users, idCounter, db, dbSeq,
                   started, pin, pout, proc, svc, databaseService>>

\* the callback looks the context up and settles, normally or with an
\* error; an error ends the handler too
callbackSettles(c) ==
    /\ call[c].pc = "nested"
    /\ LET context == currentContext(als, c)
       IN  \/ /\ call' = [call EXCEPT ![c].pc = "outer", ![c].observed = context]
              /\ als' = leaveContext(als, c)
           \/ /\ call' = [call EXCEPT ![c].pc = "done", ![c].observed = context,
                            ![c].handlerResult = "INTERNAL_SERVER_ERROR",
                            ![c].outcome = propagate("INTERNAL_SERVER_ERROR")]
              /\ als' = settled(leaveContext(als, c), c)
    /\ UNCHANGED <<now, initialized, initCount, users, idCounter, db, dbSeq,
                   started, pin, pout, proc, svc, databaseService>>

\* the handler goes on after `await withPermissions(...)`: it looks the
\* context up and returns
outerResumes(c) ==
    /\ call[c].pc = "outer"
    /\ call' = [call EXCEPT ![c].pc = "done",
                  ![c].after = currentContext(als, c),
                  ![c].handlerResult = "ok",
                  ![c].outcome = propagate("ok")]
    /\ als' = settled(als, c)
    /\ UNCHANGED <<now, initialized, initCount, users, idCounter, db, dbSeq,
                   started, pin, pout, proc, svc, databaseService>>

\* the response is sent; the slot takes the next request
respond(c) ==
    /\ call[c].pc = "done"
    /\ call' = [call EXCEPT ![c] = IdleCall]
    /\ UNCHANGED <<now, initialized, initCount, als, users, idCounter, db, dbSeq,
                   started, pin, pout, proc, svc, databaseService>>

\* time passes
Tick ==
    /\ now < MaxTime
    /\ now' = now + 1
    /\ UNCHANGED <<initialized, initCount, call, als, users, idCounter, db, dbSeq,
                   started, pin, pout, proc, svc, databaseService>>

Bearer(t) == Hdr(<<"Bearer", SP, t>>)

\* the requests of the concurrent runs: a reader, a caller with every user
\* permission, and a request without credential
SomeAuths == {Bearer("T1"), Bearer("T2"), NoHeader}

\* the steps every request goes through up to its handler
enter(c) ==
    \/ createContext(c)
    \/ initializeServices(c)
    \/ ensureServicesInitialized(c)
    \/ protectedProcedure(c)

(***************************************************************************)
(* Spec: concurrent requests to the secured router (UserService)          *)
(***************************************************************************)
Next ==
    \/ \E c \in Calls :
          \/ receive(c, SecuredRoutes, {"fetch"}, SomeAuths)
          \/ enter(c)
          \/ handler(c)
          \/ respond(c)
    \/ Tick

Spec == Init /\ [][Next]_vars

(***************************************************************************)
(* SpecDao: concurrent requests to routes that call the UserDAO           *)
(***************************************************************************)
NextDao ==
    \/ \E c \in Calls :
          \/ receive(c, DaoRoutes, {"fetch"}, SomeAuths)
          \/ enter(c)
          \/ daoCheck(c)
          \/ daoQuery(c)
          \/ daoDelete(c)
          \/ respond(c)
    \/ Tick

SpecDao == Init /\ [][NextDao]_vars

(***************************************************************************)
(* SpecAuth: one request at a time, every adapter and credential          *)
(***************************************************************************)
\* Authorization headers: well formed with each token, and malformed ones
AuthHeaders ==
    {NoHeader, Hdr(<<>>)}
    \cup {Bearer(t) : t \in TokenIds}
    \cup {Hdr(<<"bearer", SP, "T2">>), Hdr(<<"T2">>), Hdr(<<"Bearer", SP, SP, "T2">>),
          Hdr(<<"Bearer", SP, "T2", SP, "T1">>), Hdr(<<"Bearer">>),
          Hdr(<<"Basic", SP, "T2">>)}

NextAuth ==
    \/ receive("A", PermissionRoutes \cup {Route("protected", "getProfile", "service")},
               Adapters, AuthHeaders)
    \/ createContext("A")
    \/ initializeServices("A")
    \/ ensureServicesInitialized("A")
    \/ protectedProcedure("A")
    \/ permissionProcedure("A")
    \/ handler("A")
    \/ respond("A")
    \/ Tick

SpecAuth == Init /\ [][NextAuth]_vars

(***************************************************************************)
(* SpecSeq: one request at a time to every protectedProcedure route       *)
(***************************************************************************)
NextSeq ==
    \/ receive("A", SecuredRoutes \cup DaoRoutes, {"fetch"},
               SomeAuths \cup {Bearer("T3")})
    \/ enter("A")
    \/ handler("A")
    \/ daoCheck("A")
    \/ daoQuery("A")
    \/ daoDelete("A")
    \/ respond("A")
    \/ Tick

SpecSeq == Init /\ [][NextSeq]_vars

(***************************************************************************)
(* SpecGuard: concurrent requests to public and protected routes whose    *)
(* handlers reach the guard outside a context, twice in one call, or      *)
(* inside a context of their own                                          *)
(***************************************************************************)
GuardRoutes ==
    PublicDaoRoutes \cup GuardedRoutes \cup NestedRoutes
    \cup {Route("protected", "create", "dao")}

NextGuard ==
    \E c \in Calls :
        \/ receive(c, GuardRoutes, {"fetch"}, SomeAuths)
        \/ enter(c)
        \/ publicProcedure(c)
        \/ serviceCheck(c)
        \/ daoCheck(c)
        \/ daoQuery(c)
        \/ daoDelete(c)
        \/ callWithPermissions(c)
        \/ callbackSettles(c)
        \/ outerResumes(c)
        \/ respond(c)

SpecGuard == Init /\ [][NextGuard]_vars

(***************************************************************************)
(* SpecService: calls made on one UserService instance directly           *)
(***************************************************************************)
\* the ids a caller asks for: every id the counter reaches, and one that
\* was never assigned
ServiceIds == {idString[n] : n \in 1..MaxCreates} \cup {"nonexistent"}

\* Partial<User> arguments of updateUser: any of name and email, alone or
\* together with an id and a createdAt that differ from the stored ones
Updates ==
    {[has |-> h \cup k, name |-> "n2", email |-> "e2", id |-> "nonexistent",
      createdAt |-> MaxTime] :
        h \in SUBSET {"name", "email"}, k \in {{}, {"id"}, {"id", "createdAt"}}}

callCreateUser ==
    /\ idCounter <= MaxCreates
    /\ \E n \in Names, e \in Emails :
          LET r == createUser(users, idCounter, n, e, now)
          IN  /\ users' = r.users
              /\ idCounter' = r.idCounter
              /\ svc' = [svc EXCEPT !.op = "createUser", !.id = r.user.id,
                                    !.result = "user", !.updates = NoUpdates,
                                    !.returned = [isNull |-> FALSE, user |-> r.user],
                                    !.ids = Append(@, Number(r.user.id))]
    /\ UNCHANGED <<now, initialized, initCount, call, als, db, dbSeq, started,
                   pin, pout, proc, databaseService>>

callDeleteUser ==
    /\ \E id \in ServiceIds :
          LET r == deleteUser(users, id)
          IN  /\ users' = r.users
              /\ svc' = [svc EXCEPT !.op = "deleteUser", !.id = id,
                                    !.result = IF r.deleted THEN "true" ELSE "false",
                                    !.updates = NoUpdates,
                                    !.returned = [isNull |-> TRUE, user |-> NoUser],
                                    !.removed = IF r.deleted THEN @ \cup {id} ELSE @]
    /\ UNCHANGED <<now, initialized, initCount, call, als, idCounter, db, dbSeq,
                   started, pin, pout, proc, databaseService>>

callUpdateUser ==
    /\ \E id \in ServiceIds, updates \in Updates :
          LET r == updateUser(users, id, updates)
          IN  /\ users' = r.users
              /\ svc' = [svc EXCEPT !.op = "updateUser", !.id = id,
                                    !.result = IF r.updated.isNull THEN "null"
                                               ELSE "user",
                                    !.updates = updates,
                                    !.returned = r.updated]
    /\ UNCHANGED <<now, initialized, initCount, call, als, idCounter, db, dbSeq,
                   started, pin, pout, proc, databaseService>>

callShutdown ==
    /\ users' = shutdown(users)
    /\ svc' = [svc EXCEPT !.op = "shutdown", !.id = "", !.result = "none",
                          !.updates = NoUpdates,
                          !.returned = [isNull |-> TRUE, user |-> NoUser],
                          !.cleared = TRUE]
    /\ UNCHANGED <<now, initialized, initCount, call, als, idCounter, db, dbSeq,
                   started, pin, pout, proc, databaseService>>

NextService ==
    \/ callCreateUser
    \/ callDeleteUser
    \/ callUpdateUser
    \/ callShutdown

SpecService == Init /\ [][NextService]_vars

(***************************************************************************)
(* SpecUsers: the procedures of usersRouter called on one UserService.     *)
(* They are public and their handlers are synchronous, so each call is one *)
(* step on the store.                                                      *)
(***************************************************************************)
\* emails a client may send to the users router
UserEmails == Emails \cup {"e3"}

\* the input of users.update without its id: name and email are optional
RouterUpdates ==
    {[NoUpdates EXCEPT !.has = h, !.email = e] :
        h \in SUBSET {"name", "email"}, e \in UserEmails}

\* users.create: throws when findByEmail(input.email) finds a user,
\* otherwise returns createUser(input.name, input.email)
usersRouter_create(us, counter, name, email, time) ==
    IF ~findByEmail(us, email).isNull
    THEN [users |-> us, idCounter |-> counter, threw |-> TRUE, user |-> NoUser]
    ELSE LET r == createUser(us, counter, name, email, time)
         IN  [users |-> r.users, idCounter |-> r.idCounter, threw |-> FALSE,
              user |-> r.user]

\* users.update without the check that the email is taken
usersRouter_update_unchecked(us, id, updates) ==
    LET r == updateUser(us, id, updates)
    IN  [users |-> r.users, threw |-> r.updated.isNull, user |-> r.updated.user]

\* users.update: when an email is supplied and findByEmail finds it on a user
\* with another id it throws; otherwise updateUser(id, updates), and it
\* throws when that returns null
usersRouter_update(us, id, updates) ==
    LET existing == findByEmail(us, updates.email)
    IN  IF "email" \in updates.has /\ ~existing.isNull /\ existing.user.id # id
        THEN [users |-> us, threw |-> TRUE, user |-> NoUser]
        ELSE LET r == updateUser(us, id, updates)
             IN  [users |-> r.users, threw |-> r.updated.isNull,
                  user |-> r.updated.user]

\* users.delete: deleteUser(input.id), throws when nothing was deleted
usersRouter_delete(us, id) ==
    LET r == deleteUser(us, id)
    IN  [users |-> r.users, threw |-> ~r.deleted]

callUsersCreate ==
    /\ idCounter <= MaxCreates
    /\ \E n \in Names, e \in UserEmails :
          LET r == usersRouter_create(users, idCounter, n, e, now)
          IN  /\ users' = r.users
              /\ idCounter' = r.idCounter
              /\ svc' = [svc EXCEPT
                            !.op = "users.create",
                            !.id = IF r.threw THEN "" ELSE r.user.id,
                            !.result = IF r.threw THEN "error" ELSE "user",
                            !.updates = [NoUpdates EXCEPT !.has = {"name", "email"},
                                                          !.name = n, !.email = e],
                            !.returned = [isNull |-> r.threw, user |-> r.user],
                            !.ids = IF r.threw THEN @
                                    ELSE Append(@, Number(r.user.id))]
    /\ UNCHANGED <<now, initialized, initCount, call, als, db, dbSeq, started, pin,
                   pout, proc, databaseService>>

callUsersUpdate ==
    /\ \E id \in ServiceIds, updates \in RouterUpdates :
          LET r == usersRouter_update(users, id, updates)
          IN  /\ users' = r.users
              /\ svc' = [svc EXCEPT
                            !.op = "users.update", !.id = id,
                            !.result = IF r.threw THEN "error" ELSE "user",
                            !.updates = updates,
                            !.returned = [isNull |-> r.threw, user |-> r.user]]
    /\ UNCHANGED <<now, initialized, initCount, call, als, idCounter, db, dbSeq,
                   started, pin, pout, proc, databaseService>>

callUsersDelete ==
    /\ \E id \in ServiceIds :
          LET r == usersRouter_delete(users, id)
          IN  /\ users' = r.users
              /\ svc' = [svc EXCEPT
                            !.op = "users.delete", !.id = id,
                            !.result = IF r.threw THEN "error" ELSE "success",
                            !.updates = NoUpdates,
                            !.returned = [isNull |-> TRUE, user |-> NoUser],
                            !.removed = IF r.threw THEN @ ELSE @ \cup {id}]
    /\ UNCHANGED <<now, initialized, initCount, call, als, idCounter, db, dbSeq,
                   started, pin, pout, proc, databaseService>>

NextUsers ==
    \/ callUsersCreate
    \/ callUsersUpdate
    \/ callUsersDelete

SpecUsers == Init /\ [][NextUsers]_vars

(***************************************************************************)
(* SpecDb: the methods of one DatabaseService.  getPrisma and initialize   *)
(* may be called while a shutdown awaits $disconnect; the service          *)
(* container runs one shutdown at a time.                                  *)
(***************************************************************************)
\* getPrisma constructing a client on every call
getPrisma_always(s) ==
    [s EXCEPT !.prisma = s.created + 1, !.created = s.created + 1,
              !.result = s.created + 1,
              !.returned = @ \cup {s.created + 1}]

\* getPrisma(): if (!this.prisma) this.prisma = new PrismaClient();
\* return this.prisma
getPrisma(s) ==
    LET made == IF s.prisma = 0
                THEN [s EXCEPT !.prisma = s.created + 1, !.created = s.created + 1]
                ELSE s
    IN  [made EXCEPT !.result = made.prisma, !.returned = @ \cup {made.prisma}]

callGetPrisma ==
    /\ databaseService.created < MaxClients \/ databaseService.prisma # 0
    /\ databaseService' = [getPrisma(databaseService) EXCEPT !.op = "getPrisma"]
    /\ UNCHANGED <<now, initialized, initCount, call, als, users, idCounter, db,
                   dbSeq, started, pin, pout, proc, svc>>

\* initialize(): returns at once without DATABASE_URL, otherwise
\* getPrisma() and $connect()
initialize ==
    /\ databaseService.created < MaxClients \/ databaseService.prisma # 0
    /\ \E configured \in BOOLEAN :
          databaseService' =
              IF configured
              THEN LET s == getPrisma(databaseService)
                   IN  [s EXCEPT !.op = "initialize",
                                 !.connected = @ \cup {s.result}]
              ELSE [databaseService EXCEPT !.op = "initialize", !.result = 0]
    /\ UNCHANGED <<now, initialized, initCount, call, als, users, idCounter, db,
                   dbSeq, started, pin, pout, proc, svc>>

\* shutdown() up to its await: with a client, $disconnect() is called on it
\* and awaited; without one the method returns
shutdownBegins ==
    /\ databaseService.closing = 0
    /\ databaseService' =
          IF databaseService.prisma # 0
          THEN [databaseService EXCEPT !.op = "shutdown",
                   !.result = 0,
                   !.closing = databaseService.prisma,
                   !.disconnected = @ \cup {databaseService.prisma}]
          ELSE [databaseService EXCEPT !.op = "shutdown", !.result = 0,
                                       !.returned = {}]
    /\ UNCHANGED <<now, initialized, initCount, call, als, users, idCounter, db,
                   dbSeq, started, pin, pout, proc, svc>>

\* shutdown() after $disconnect() resolved: this.prisma = null
shutdownEnds ==
    /\ databaseService.closing # 0
    /\ databaseService' = [databaseService EXCEPT !.op = "shutdown done",
                               !.result = 0,
                               !.prisma = 0, !.closing = 0, !.returned = {}]
    /\ UNCHANGED <<now, initialized, initCount, call, als, users, idCounter, db,
                   dbSeq, started, pin, pout, proc, svc>>

NextDb ==
    \/ callGetPrisma
    \/ initialize
    \/ shutdownBegins
    \/ shutdownEnds

SpecDb == Init /\ [][NextDb]_vars

(***************************************************************************)
(* SpecBoot: a server process from startup to exit.  The standalone       *)
(* backend and a cluster worker call initializeServices before they       *)
(* listen; requests are served while the process listens.                 *)
(***************************************************************************)
\* the public route of the secured example router
PublicRoutes == {Route("public", "status", "service")}

\* start() of the standalone backend, or the worker branch of startCluster,
\* up to `await initializeServices()`: the services are constructed and
\* handed to ServicesContext.initialize
start ==
    /\ proc.phase = "module"
    /\ \E m \in {"standalone", "worker"} :
          proc' = [proc EXCEPT !.phase = "starting", !.mode = m]
    /\ initCount' = initCount + 1
    /\ UNCHANGED <<now, initialized, call, als, users, idCounter, db, dbSeq,
                   started, pin, pout, svc, databaseService>>

\* initializeServices has settled: the server listens and the SIGTERM
\* handler is registered
listen ==
    /\ proc.phase = "starting"
    /\ proc' = [proc EXCEPT !.phase = "listening"]
    /\ UNCHANGED <<now, initialized, initCount, call, als, users, idCounter, db,
                   dbSeq, started, pin, pout, svc, databaseService>>

\* shutdownServices(): the services whose shutdown method has run when it
\* returns, given those that had run before (it calls none)
shutdownServices(ran) == ran

\* SIGTERM in a cluster worker: await shutdownServices(); process.exit(0).
\* The requests in flight end with the process.
workerSigterm ==
    /\ proc.phase = "listening"
    /\ proc.mode = "worker"
    /\ initialized' = FALSE
    /\ proc' = [proc EXCEPT !.phase = "exited",
                            !.shutdowns = shutdownServices(proc.shutdowns)]
    /\ call' = [c \in Calls |-> IdleCall]
    /\ als' = [c \in Calls |-> <<>>]
    /\ UNCHANGED <<now, initCount, users, idCounter, db, dbSeq, started, pin, pout,
                   svc, databaseService>>

\* SIGTERM in the standalone backend: server.close(() => process.exit(0)),
\* the callback runs once no request is in flight
standaloneSigterm ==
    /\ proc.phase = "listening"
    /\ proc.mode = "standalone"
    /\ \A c \in Calls : call[c].pc = "idle"
    /\ proc' = [proc EXCEPT !.phase = "exited"]
    /\ UNCHANGED <<now, initialized, initCount, call, als, users, idCounter, db,
                   dbSeq, started, pin, pout, svc, databaseService>>

\* a request reaches the listening server
accept(c) ==
    /\ proc.phase = "listening"
    /\ receive(c, PublicRoutes \cup {Route("protected", "getProfile", "service")},
               {"express", "fetch"}, SomeAuths)

NextBoot ==
    \/ start
    \/ listen
    \/ \E c \in Calls :
          \/ accept(c)
          \/ enter(c)
          \/ publicProcedure(c)
          \/ handler(c)
          \/ respond(c)
    \/ workerSigterm
    \/ standaloneSigterm

SpecBoot == Init /\ [][NextBoot]_vars

(***************************************************************************)
(* SpecParse: parseAuthHeader on every header up to MaxHeaderLen atoms    *)
(***************************************************************************)
HeaderAtoms == {"Bearer", "bearer", SP} \cup TokenIds

Strings(n) == UNION {[1..k -> HeaderAtoms] : k \in 0..n}

InitParse ==
    /\ now = 0
    /\ initialized = FALSE
    /\ initCount = 0
    /\ call = [c \in Calls |-> IdleCall]
    /\ als = [c \in Calls |-> <<>>]
    /\ users = <<>>
    /\ idCounter = 1
    /\ db = <<>>
    /\ dbSeq = 1
    /\ started = 0
    /\ pin \in {[auth |-> h, time |-> t] :
                   h \in {NoHeader} \cup {Hdr(str) : str \in Strings(MaxHeaderLen)},
                   t \in 0..MaxTime}
    /\ pout = [done |-> FALSE, result |-> Null]
    /\ proc = NewProc
    /\ svc = NoSvc
    /\ databaseService = NewDatabaseService

\* the decoder is applied to the input
decode ==
    /\ ~pout.done
    /\ pout' = [done |-> TRUE, result |-> parseAuthHeader(pin.auth, pin.time)]
    /\ UNCHANGED <<now, initialized, initCount, call, als, users, idCounter, db,
                   dbSeq, started, pin, proc, svc, databaseService>>

NextParse == decode

SpecParse == InitParse /\ [][NextParse]_vars

(***************************************************************************)
(* Properties                                                              *)
(***************************************************************************)
\* the token of a header of the form "Bearer <token>"
tokenOf(auth) == TokenTable[auth.str[3]]

IsBearerToken(auth) ==
    /\ auth.defined
    /\ Len(auth.str) = 3
    /\ auth.str[1] = "Bearer" /\ auth.str[2] = SP /\ auth.str[3] # SP

FailedCheck == {"denied", "unauthenticated"}

C2_Unauthenticated ==
    \A c \in Calls :
        (/\ call[c].pc \in {"handler", "done"}
         /\ call[c].route.proc \in {"protected", "permission"}
         /\ ~IsBearerToken(call[c].auth))
        => (call[c].outcome = "UNAUTHORIZED" /\ call[c].invocations = 0)

\* a token that verifies at every time and carries a principal id
Verifies(auth) ==
    /\ IsBearerToken(auth)
    /\ auth.str[3] \in TokenIds
    /\ tokenOf(auth).signed /\ tokenOf(auth).wellFormed
    /\ tokenOf(auth).exp = NoExp
    /\ tokenOf(auth).hasUserId /\ tokenOf(auth).userId # ""

\* C3: a call to a protectedProcedure route with a verifying token that
\* carries a principal id, whose ctx.headers is the object createContext
\* builds from the request, gets past the middleware: the context is
\* established with the token's principal id and permissions and the
\* handler is invoked.
C3_Authenticated ==
    \A c \in Calls :
        (/\ call[c].pc \in {"handler", "done"}
         /\ call[c].route.proc = "protected"
         /\ call[c].adapter = "express"
         /\ Verifies(call[c].auth))
        => /\ call[c].authed
           /\ call[c].userId = tokenOf(call[c].auth).userId
           /\ call[c].pc = "done" => call[c].invocations = 1

\* the permission each secured route documents
documented(name) ==
    IF name = "createUser" THEN "user/create"
    ELSE IF name = "listUsers" THEN "user/read"
    ELSE "user/delete"

\* C4: through the secured router on protectedProcedure the user store is
\* changed or read only by callers whose permissions include the one the
\* route documents.
C4_Guarded ==
    \A c \in Calls :
        (/\ call[c].route \in SecuredRoutes
         /\ call[c].route.name \in {"createUser", "listUsers", "deleteUser"}
         /\ call[c].pc = "done"
         /\ call[c].authed
         /\ \/ call[c].changed
            \/ call[c].route.name = "listUsers" /\ call[c].outcome = "ok")
        => includes(call[c].permissions, documented(call[c].route.name))

listed(message) ==
    Range(SubSeq(message, Len(forbiddenMessage(<<>>)) + 1, Len(message))) \ {",", SP}

\* C6: the access-denied failure names exactly the missing permissions:
\* the names its message lists are the required ones that are not granted.
C6_NamesMissing ==
    \A c \in Calls :
        call[c].outcome = "FORBIDDEN" =>
            listed(call[c].message)
                = Range(requiredPermissions(call[c].route)) \ Range(call[c].permissions)

\* C7: in the UserDAO methods that check permissions the check completes
\* before any database operation is issued: a call whose check failed has
\* issued none, returns no stored data, and no step of it changes the table.
C7_CheckFirst ==
    [][\A c \in Calls :
          call'[c].check \in FailedCheck =>
              /\ call'[c].dbOps = 0
              /\ call'[c].returned = <<>>
              /\ ~call'[c].changed
              /\ call'[c].pc = "done"
              /\ call'[c] # call[c] => db' = db]_vars

\* C7 witness: a delete was refused while the table held a row
C7_Witness ==
    \E c \in Calls :
        /\ call[c].route = Route("protected", "delete", "dao")
        /\ call[c].check = "denied"
        /\ call[c].pc = "done"
        /\ Len(db) > 0

\* C8: parseAuthHeader never throws; it returns a payload exactly when the
\* header is "Bearer <token>" with a token that verifies against the server
\* secret at that time, and null for every other header.
C8_ParseTotal ==
    pout.done =>
        /\ pout.result.kind \in {"null", "payload"}
        /\ (pout.result.kind = "payload") <=>
               (/\ IsBearerToken(pin.auth)
                /\ pin.auth.str[3] \in TokenIds
                /\ tokenOf(pin.auth).signed
                /\ tokenOf(pin.auth).wellFormed
                /\ pin.time < tokenOf(pin.auth).exp)
        /\ (pout.result.kind = "payload") => pout.result.token = pin.auth.str[3]

\* C8 witness: an expired token was decoded to null
C8_Witness ==
    /\ pout.done
    /\ pin.auth = Bearer("Texp")
    /\ pin.time >= TokenTable["Texp"].exp
    /\ pout.result = Null

\* C9: once a call is authenticated its handler runs inside the context
\* established for it, is invoked once, and the middleware ends with the
\* handler's own outcome (success or failure), unchanged.
C9_Propagates ==
    \A c \in Calls :
        call[c].authed =>
            /\ call[c].pc \in {"handler", "dao_query", "dao_delete"} =>
                   /\ currentContext(als, c).present
                   /\ currentContext(als, c).userId = call[c].userId
                   /\ call[c].outcome = "none"
            /\ call[c].pc = "done" =>
                   /\ call[c].invocations = 1
                   /\ call[c].handlerResult # "none"
                   /\ call[c].outcome = call[c].handlerResult

\* C9 witness: a failure of the handler has reached the entry point
C9_Witness ==
    \E c \in Calls :
        /\ call[c].authed
        /\ call[c].pc = "done"
        /\ call[c].outcome \in {"BAD_REQUEST", "NOT_FOUND", "ACCESS_DENIED"}

\* C10: over any number of calls of ensureServicesInitialized, concurrent
\* ones included, initializeServices is executed at most once.
C10_InitOnce == initCount <= 1

\* C13: in the permissionProcedure variant of the secured router createUser
\* and deleteUser admit a caller who holds either one of the two listed
\* permissions: such a caller reaches the handler.
C13_EitherSuffices ==
    \A c \in Calls :
        (/\ call[c].route \in {Route("permission", "createUser", "service"),
                               Route("permission", "deleteUser", "service")}
         /\ call[c].pc \in {"handler", "done"}
         /\ call[c].outcome \notin {"UNAUTHORIZED", "INTERNAL_SERVER_ERROR"}
         /\ \E i \in 1..Len(requiredPermissions(call[c].route)) :
                includes(call[c].permissions, requiredPermissions(call[c].route)[i]))
        => (call[c].authed /\ call[c].outcome # "FORBIDDEN")

\* a header that grants nothing at any time: not "Bearer <token>", a token
\* that never verifies, or a token whose payload omits permissions
GrantsNothing(auth) ==
    \/ ~IsBearerToken(auth)
    \/ auth.str[3] \notin TokenIds
    \/ ~tokenOf(auth).signed
    \/ ~tokenOf(auth).wellFormed
    \/ ~tokenOf(auth).hasPermissions

\* the non-empty requirements of the routes and of the UserDAO methods
Requirements ==
    {requiredPermissions(r) : r \in PermissionRoutes}
    \cup {daoRequired(m) : m \in {"create", "findAll", "update", "delete"}}

\* C14: for a request whose token verifies but omits permissions, and for
\* a request with no usable header, extractPermissions returns the empty
\* list; the context established for such a request grants nothing, so
\* every non-empty requirement fails.
C14_DefaultEmpty ==
    \A c \in Calls :
        LET headers == headersArg(createContextHeaders(call[c].adapter, call[c].auth))
        IN  (/\ call[c].pc \in {"handler", "done"}
             /\ ~headers.threw
             /\ GrantsNothing(call[c].auth))
            => /\ \A t \in 0..MaxTime : extractPermissions(headers, t) = <<>>
               /\ call[c].permissions = <<>>
               /\ call[c].route.proc = "permission" =>
                      (~call[c].authed /\ call[c].invocations = 0
                       /\ call[c].outcome \in {"UNAUTHORIZED", "FORBIDDEN"})
               /\ (call[c].authed /\ call[c].pc = "handler") =>
                      /\ currentContext(als, c).permissions = <<>>
                      /\ \A r \in Requirements :
                             /\ ~hasPermission(r, currentContext(als, c).permissions)
                             /\ checkRequiredPermissions(currentContext(als, c), r)
                                    = "denied"

\* C14 witness: a verifying token without permissions was refused on a
\* route requiring one permission
C14_Witness ==
    \E c \in Calls :
        /\ call[c].auth = Bearer("Tnoperm")
        /\ call[c].route = Route("permission", "listUsers", "service")
        /\ call[c].userId = "u5"
        /\ call[c].outcome = "FORBIDDEN"

\* the positions of a call at which it runs inside the scope established
\* for it by the middleware
InScope ==
    {"handler", "service_checked", "dao_query", "dao_delete", "nested", "outer"}

outerContext(c) ==
    [present |-> TRUE, userId |-> call[c].userId, permissions |-> call[c].permissions]

C19_IdsIncrease ==
    /\ \A i, j \in 1..Len(svc.ids) : i < j => svc.ids[i] < svc.ids[j]
    /\ \A i \in 1..Len(users) : \E k \in 1..Len(svc.ids) :
           Number(users[i].id) = svc.ids[k]

\* C19 witness: a third user was created after earlier ones were removed
C19_Witness ==
    /\ svc.op = "createUser"
    /\ Len(svc.ids) = 3
    /\ Len(users) = 1
    /\ Number(users[1].id) = 3

\* C20: deleteUser(id) returns true exactly when a user with that id was
\* stored; after it returned true getUserById(id) is null and every other
\* stored user is as before; when it returned false the store is as before.
C20_DeleteFrame ==
    [][svc'.op = "deleteUser" =>
          /\ (svc'.result = "true") <=> ~getUserById(users, svc'.id).isNull
          /\ svc'.result = "true" =>
                 /\ getUserById(users', svc'.id).isNull
                 /\ Len(getAllUsers(users')) = Len(getAllUsers(users)) - 1
                 /\ \A k \in ServiceIds \ {svc'.id} :
                        getUserById(users', k) = getUserById(users, k)
          /\ svc'.result = "false" => users' = users
          /\ idCounter' = idCounter]_vars

\* C20 witness: a stored user was deleted and another one remained
C20_Witness ==
    /\ svc.op = "deleteUser"
    /\ svc.result = "true"
    /\ getUserById(users, svc.id).isNull
    /\ Len(users) >= 1

\* C21: updateUser(id, updates) on a stored user returns and stores a user
\* in which exactly the supplied name and email are replaced; every field
\* not supplied, and id and createdAt even when supplied, keep their stored
\* values; the other users are untouched.  On an id that is not stored it
\* returns null and leaves the store unchanged.
C21_UpdateFrame ==
    [][svc'.op = "updateUser" =>
          LET old == getUserById(users, svc'.id)
              new == getUserById(users', svc'.id)
              u == svc'.updates
          IN  /\ old.isNull => (svc'.returned.isNull /\ users' = users)
              /\ ~old.isNull =>
                     /\ ~svc'.returned.isNull
                     /\ svc'.returned = new
                     /\ new.user.id = old.user.id
                     /\ new.user.createdAt = old.user.createdAt
                     /\ new.user.name = IF "name" \in u.has THEN u.name
                                        ELSE old.user.name
                     /\ new.user.email = IF "email" \in u.has THEN u.email
                                         ELSE old.user.email
                     /\ Len(users') = Len(users)
                     /\ \A k \in ServiceIds \ {svc'.id} :
                            getUserById(users', k) = getUserById(users, k)
              /\ idCounter' = idCounter]_vars

\* C21 witness: an update that supplied name, id and createdAt changed the
\* name of a stored user and kept its email
C21_Witness ==
    /\ svc.op = "updateUser"
    /\ svc.updates.has = {"name", "id", "createdAt"}
    /\ ~svc.returned.isNull
    /\ svc.returned.user.name = "n2"
    /\ svc.returned.user.email = "e1"
    /\ svc.returned.user.id = svc.id

\* the ids of a list of users
idsOf(list) == {list[i].id : i \in 1..Len(list)}

\* C22: getAllUsers returns exactly the stored users: nothing on a new
\* instance, and, as long as the store was not cleared, every user created
\* and not since deleted, each once, so its length is the number of
\* creates minus the number of successful deletes.
C22_AllUsers ==
    LET all == getAllUsers(users)
    IN  /\ svc.op = "none" => all = <<>>
        /\ ~svc.cleared =>
               /\ Len(all) = Len(svc.ids) - Cardinality(svc.removed)
               /\ {Number(id) : id \in idsOf(all)} = Range(svc.ids)
                      \ {Number(id) : id \in svc.removed}
               /\ \A i, j \in 1..Len(all) : all[i].id = all[j].id => i = j
               /\ \A i \in 1..Len(all) : getUserById(users, all[i].id).user = all[i]

\* C22 witness: three users were created, one of them deleted, two listed
C22_Witness ==
    /\ ~svc.cleared
    /\ Len(svc.ids) = 3
    /\ Cardinality(svc.removed) = 1
    /\ Len(getAllUsers(users)) = 2

\* C23: right after createUser(name, email) returned u, getUserById(u.id)
\* returns u, and findByEmail(email) returns u when no user stored before
\* had that email; getUserById of an id never created and findByEmail of
\* an email no stored user has return null.
C23_LookupRoundTrip ==
    [][/\ svc'.op = "createUser" =>
             LET u == svc'.returned.user
             IN  /\ getUserById(users', u.id) = [isNull |-> FALSE, user |-> u]
                 /\ (\A i \in 1..Len(users) : users[i].email # u.email) =>
                        findByEmail(users', u.email) = [isNull |-> FALSE, user |-> u]
       /\ getUserById(users', "nonexistent").isNull
       /\ \A n \in (Len(svc'.ids) + 1)..Len(idString) :
              getUserById(users', idString[n]).isNull
       /\ \A e \in Emails :
              (\A i \in 1..Len(users') : users'[i].email # e) =>
                  findByEmail(users', e).isNull]_vars

\* C23 witness: a user was created with an email no stored user had while
\* another user was stored
C23_Witness ==
    /\ svc.op = "createUser"
    /\ Len(users) = 2
    /\ users[1].email # users[2].email
    /\ findByEmail(users, users[2].email).user = svc.returned.user

\* some stored user other than the one with this id holds the email
heldByOther(us, id, email) ==
    \E i \in 1..Len(us) : us[i].email = email /\ us[i].id # id

\* C24: through users.create, users.update and users.delete, starting from
\* an empty store, no two stored users ever have the same email; a create
\* or an update that would give a user an email held by a different user
\* fails and leaves the store unchanged.
C24_EmailUnique ==
    [][/\ \A i, j \in 1..Len(users') :
              users'[i].email = users'[j].email => i = j
       /\ (svc'.op = "users.create" /\ heldByOther(users, "", svc'.updates.email)) =>
              (svc'.result = "error" /\ users' = users /\ idCounter' = idCounter)
       /\ (/\ svc'.op = "users.update"
           /\ "email" \in svc'.updates.has
           /\ heldByOther(users, svc'.id, svc'.updates.email)) =>
              (svc'.result = "error" /\ users' = users)]_vars

\* C24 witness: with two users stored under different emails, an update that
\* would move one of them onto the other's email failed
C24_Witness ==
    /\ svc.op = "users.update"
    /\ svc.result = "error"
    /\ "email" \in svc.updates.has
    /\ Len(users) >= 2
    /\ ~getUserById(users, svc.id).isNull
    /\ heldByOther(users, svc.id, svc.updates.email)

\* C25: the deleteUser handler of the secured router fails with BAD_REQUEST
\* and leaves the store unchanged whenever input.userId is the caller's
\* principal id, also when a user with that id is stored; it fails with
\* NOT_FOUND and leaves the store unchanged when the target is not stored;
\* otherwise it removes the target user and no other.
C25_NoSelfDelete ==
    [][\A c \in Calls :
          (/\ call[c].pc = "handler"
           /\ call'[c].pc = "done"
           /\ call[c].route = Route("protected", "deleteUser", "service")) =>
             LET target == call'[c].input.userId
                 stored == ~getUserById(users, target).isNull
             IN  /\ target = call[c].userId =>
                        /\ call'[c].handlerResult = "BAD_REQUEST"
                        /\ call'[c].outcome = "BAD_REQUEST"
                        /\ users' = users
                 /\ (target # call[c].userId /\ ~stored) =>
                        /\ call'[c].handlerResult = "NOT_FOUND"
                        /\ call'[c].outcome = "NOT_FOUND"
                        /\ users' = users
                 /\ (target # call[c].userId /\ stored) =>
                        /\ call'[c].handlerResult = "ok"
                        /\ getUserById(users', target).isNull
                        /\ Len(users') = Len(users) - 1
                        /\ \A k \in ServiceIds \ {target} :
                               getUserById(users', k) = getUserById(users, k)]_vars

\* C25 witness: the principal "1" asked to delete the stored user "1" and
\* got BAD_REQUEST, the user still stored
C25_Witness ==
    \E c \in Calls :
        /\ call[c].pc = "done"
        /\ call[c].route = Route("protected", "deleteUser", "service")
        /\ call[c].input.userId = call[c].userId
        /\ call[c].handlerResult = "BAD_REQUEST"
        /\ ~getUserById(users, call[c].userId).isNull

isPrefix(a, b) == Len(a) <= Len(b) /\ \A i \in 1..Len(a) : a[i] = b[i]

C28_CtxMatchesContext ==
    \A c \in Calls :
        (call[c].pc = "handler" /\ call[c].route.proc = "protected") =>
            /\ call[c].userId # ""
            /\ IsBearerToken(call[c].auth)
            /\ call[c].auth.str[3] \in TokenIds
            /\ call[c].userId = tokenOf(call[c].auth).userId
            /\ currentContext(als, c) =
                   [present |-> TRUE, userId |-> call[c].userId,
                    permissions |-> call[c].permissions]

\* C28 witness: the handler of a protected route is about to run for the
\* principal u4 with its two permissions
C28_Witness ==
    \E c \in Calls :
        /\ call[c].pc = "handler"
        /\ call[c].route.proc = "protected"
        /\ call[c].userId = "u4"
        /\ currentContext(als, c).permissions = <<"admin", "user/delete">>

\* the header carries a token that verifies at clock value time and has a
\* principal id
validAt(auth, time) ==
    /\ IsBearerToken(auth)
    /\ jwtVerifies(<<auth.str[3]>>, time)
    /\ tokenOf(auth).hasUserId
    /\ tokenOf(auth).userId # ""

\* C29: in permissionProcedure authentication comes before the permission
\* check: a call whose credential is missing or does not verify ends
\* UNAUTHORIZED, with no context established, whatever the route requires;
\* FORBIDDEN is the end only of a call whose token verified and carries a
\* principal id; a context is established only when the token verified and
\* the permission check passed.
C29_AuthBeforePermission ==
    [][\A c \in Calls :
          (/\ call[c].pc = "middleware"
           /\ call[c].route.proc = "permission"
           /\ call'[c].pc # "middleware") =>
             /\ ~validAt(call[c].auth, now) =>
                    /\ call'[c].pc = "done"
                    /\ call'[c].outcome = "UNAUTHORIZED"
                    /\ als' = als
             /\ call'[c].outcome = "FORBIDDEN" => validAt(call[c].auth, now)
             /\ als'[c] # als[c] =>
                    /\ validAt(call[c].auth, now)
                    /\ call'[c].pc = "handler"
                    /\ hasPermission(requiredPermissions(call[c].route),
                                     call'[c].permissions)]_vars

\* C30: whenever the middleware has established a context for a call, the
\* permission list of that context is the permission list of the token the
\* call presented.
C30_OneDecode ==
    \A c \in Calls :
        (call[c].pc = "handler" /\ call[c].route.proc \in {"protected", "permission"}) =>
            /\ currentContext(als, c).present
            /\ currentContext(als, c).userId = tokenOf(call[c].auth).userId
            /\ currentContext(als, c).permissions =
                   permissionsOf(Payload(call[c].auth.str[3]))

\* C11: in the standalone backend and in a cluster worker the service set
\* is constructed and registered exactly once over startup followed by any
\* number of requests: initializeServices has run once, at startup, so the
\* services a request sees are those created at startup.
C11_StartupOnce ==
    proc.phase \in {"listening", "exited"} => initCount = 1

\* C12: when a worker that finished starting has exited on SIGTERM, the
\* shutdown method of every initialized service has been executed.
C12_ShutdownAll ==
    (proc.mode = "worker" /\ proc.phase = "exited")
        => proc.shutdowns = Range(Services)

====
